---- MODULE Spec2Model ----
(***************************************************************************)
(* TradeBridge 1.3: the alert listener (tv_server.py), the enrichment pass *)
(* (trade_parser.py), the execution pass (trade_executor.py) and the       *)
(* position risk manager (tpsl_manager.py).                                *)
(*                                                                         *)
(* Four specifications share the module:                                   *)
(*   Spec       the per-day stores and the passes that read and write them *)
(*   SpecEnrich validation and sizing of one alert (pure functions)        *)
(*   SpecExec   one call of execute_trade against the venue                *)
(*   SpecRisk   the risk manager's loop over one position                  *)
(* Each specification moves its own variables and leaves the others at     *)
(* their initial value.                                                    *)
(***************************************************************************)
EXTENDS Integers, Sequences, FiniteSets, TLC

----------------------------------------------------------------------------
(* Bounds of the model *)

\* alerts the listener receives in one day
MaxAlerts == 2
\* last value of the wall clock of Spec, in minutes
MaxTime == 2
\* Enrichment passes counted by SpecSeq
MaxRuns == 2
\* positions open on the signal's symbol when execute_trade is called
MaxPositions == 2
\* last value of the wall clock of SpecRisk, in seconds
MaxClock == 140
\* alerts in the store of a run over several accounts (SpecBalance)
MaxPassAlerts == 3

----------------------------------------------------------------------------
(* Program constants *)

\* trade_parser.py is_recent: timedelta(minutes=1); the clock of Spec counts minutes
FRESH_MINUTES == 1
\* trade_parser.py LEVERAGE
LEVERAGE == 500

VARIABLES
    now,            \* wall clock, minutes
    nextId,         \* number of alerts received so far + 1
    alertFile,      \* data/mt5_signals/mt5_signals_<day>.csv, a sequence of rows
    enrichedFile,   \* data/readytrades/enriched_mt5_signals_<day>.csv
    pPc,            \* position of the parser pass
    pRows,          \* parser: enriched_data of process_signals
    pExisting,      \* parser: existing_data read by save_and_mark_processed
    pOriginal,      \* parser: original read by save_and_mark_processed
    xPc,            \* position of the executor pass
    xDf,            \* executor: df, its snapshot of the enriched store
    xQueue,         \* executor: row indices of pending_trades still to iterate
    accepted,       \* history: per alert id, new-position orders the venue accepted
    attempted,      \* history: alert ids execute_trade was called for
    \* SpecSeq
    runs,           \* Enrichment passes run so far
    before,         \* the two stores as they were before the last pass
    \* SpecEnrich
    ePc,            \* "input" before and "done" after the alert is enriched
    eSignal,        \* the alert row
    eConfig,        \* config["strategies"]
    eVenue,         \* what the venue answers during sizing
    eNow,           \* wall clock when the alert is processed
    eRow,           \* the element of enriched_data
    eLot,           \* what calculate_lotsize returned, in lot units
    \* SpecExec
    vSession,       \* executor process: "open" between mt5.initialize and mt5.shutdown
    vPositions,     \* venue: ticket -> [type, magic] of the positions on the symbol
    vOpen,          \* venue: tickets of the positions still open
    tPc,            \* position in execute_trade
    tAction,        \* argument action
    tMode,          \* reverse_cfg["mode"]
    tMagic,         \* reverse_cfg["magic_restriction"]
    tFound,         \* opposite_positions, as tickets
    tIdx,           \* close_positions: index of the position being closed
    tResults,       \* close_positions: results, TRUE for TRADE_RETCODE_DONE
    tFill,          \* index into FILLING_MODES
    tResult,        \* what execute_trade returned
    tOrders,        \* history: the requests order_send passed to the venue in this call
    tRow,           \* process_signals: the row of df the call is made for
    tPass,          \* Execution passes started so far
    tFrom,          \* history: the position execute_trade returned from
    \* SpecRisk
    rNow,           \* wall clock, seconds
    rPc,            \* "loop" at the top of a pass, "send" inside the retry loop
    rPos,           \* the venue's open position, prices in points
    rCfg,           \* tpsl_logic of the strategy
    rReq,           \* the modification request of manage_position
    rAttempt,       \* attempt of the retry loop
    rTrailed,       \* history: a pass has computed a trailing stop
    rLastSl,        \* history: sl_price of the last pass that computed one, -1 if none
    rEval,          \* history: the last comparison of targets and current levels
    rReqAt,         \* history: time of the last modification request, -1 if none
    rAccAt,         \* history: time of the last accepted modification, -1 if none
    rAccBefore,     \* history: rAccAt as it was when the last request was sent
    rInitial,       \* history: the levels the position had when the loop started
    rLast,          \* history: start time, outcome and requests of the last pass
    \* SpecPass
    qPc,            \* position of trade_parser.py: "load", "loop", "main", "done"
    qConfig,        \* config["strategies"]
    qSignals,       \* signals of process_signals
    qIdx,           \* index of the signal the loop is at
    qRows,          \* enriched_data
    qActive,        \* utils._active_connections
    qConn,          \* the account the MetaTrader5 module is connected to
    qResult,        \* what process_signals returned: "frame" or "none"
    qFaulted,       \* history: alert ids whose sizing met a fault
    qAbort,         \* history: why process_signals returned None
    qUsed,          \* history: <<strategy, account>> of every balance used for sizing
    \* SpecMulti
    mPc,            \* position of main_loop: "strategy", "sleep"
    mPass,          \* passes of main_loop started so far
    mStrat,         \* index of the strategy the pass is at
    mConn,          \* the account the MetaTrader5 module is connected to
    mCache,         \* tpsl_manager._terminal_connections
    mAccounts,      \* venue: account -> the open positions held on it
    mAllowed,       \* strategy -> allowed_symbols
    mReads,         \* history: <<strategy, account>> of every positions_get
    mMods,          \* history: <<strategy, account, tag>> of every managed position
    \* SpecTargets
    gPc,            \* "input" before manage_position computed, "done" after
    gPos,           \* the position
    gCfg,           \* its strategy's tpsl_logic
    gPrice,         \* current_price: tick.bid for a long, tick.ask for a short
    gAccount,       \* account balance and the symbol's trade_tick_value_profit
    gOut,           \* sl_price and tp_price as computed, or ok = FALSE
    \* SpecSuper
    sRunning,       \* autostart.running
    sMain,          \* the main thread of autostart: "running", "exited"
    sSignal,        \* the shutdown signal received: "none", "process", "console"
    sThread,        \* loop thread -> "top", "run", "sleep", "dead"
    sChild,         \* the tpsl_manager.py process the tpsl thread runs
    sChildPass,     \* passes its main_loop has started
    sAttempt,       \* index of the attempt the retry loop made last
    sFaultAt,       \* history: the pass that met the last fault, 0 for none
    sFaultKind,     \* history: the kind of that fault
    sLate           \* history: what was started after the shutdown signal

pipeVars == <<now, nextId, alertFile, enrichedFile, pPc, pRows, pExisting,
              pOriginal, xPc, xDf, xQueue, accepted, attempted>>
seqVars == <<runs, before>>
enrichVars == <<ePc, eSignal, eConfig, eVenue, eNow, eRow, eLot>>
execVars == <<vSession, vPositions, vOpen, tPc, tAction, tMode, tMagic, tFound,
              tIdx, tResults, tFill, tResult, tOrders, tRow, tPass, tFrom>>

riskVars == <<rNow, rPc, rPos, rCfg, rReq, rAttempt, rTrailed, rLastSl, rEval,
              rReqAt, rAccAt, rAccBefore, rInitial, rLast>>

passVars == <<qPc, qConfig, qSignals, qIdx, qRows, qActive, qConn, qResult,
              qFaulted, qAbort, qUsed>>
multiVars == <<mPc, mPass, mStrat, mConn, mCache, mAccounts, mAllowed, mReads,
               mMods>>
targetVars == <<gPc, gPos, gCfg, gPrice, gAccount, gOut>>
superVars == <<sRunning, sMain, sSignal, sThread, sChild, sChildPass, sAttempt,
               sFaultAt, sFaultKind, sLate>>

nonPipeVars == <<seqVars, enrichVars, execVars, riskVars, passVars, multiVars,
                 targetVars, superVars>>
nonSeqVars == <<enrichVars, execVars, riskVars, passVars, multiVars, targetVars,
                superVars>>
nonEnrichVars == <<pipeVars, seqVars, execVars, riskVars, passVars, multiVars,
                   targetVars, superVars>>
nonExecVars == <<pipeVars, seqVars, enrichVars, riskVars, passVars, multiVars,
                 targetVars, superVars>>
nonRiskVars == <<pipeVars, seqVars, enrichVars, execVars, passVars, multiVars,
                 targetVars, superVars>>
nonPassVars == <<seqVars, enrichVars, execVars, riskVars, multiVars, targetVars,
                 superVars>>
nonMultiVars == <<pipeVars, seqVars, enrichVars, execVars, riskVars, passVars,
                  targetVars, superVars>>
nonTargetVars == <<pipeVars, seqVars, enrichVars, execVars, riskVars, passVars,
                   multiVars, superVars>>
nonSuperVars == <<pipeVars, seqVars, enrichVars, execVars, riskVars, passVars,
                  multiVars, targetVars>>

vars == <<pipeVars, seqVars, enrichVars, execVars, riskVars, passVars, multiVars,
          targetVars, superVars>>

----------------------------------------------------------------------------
(* Strings.  A symbol or an action is one of a few tokens; str.upper and    *)
(* str.lower are tabulated over them.                                      *)

Upper(s) ==
    CASE s = "eurusd" -> "EURUSD"
      [] s = "xauusd" -> "XAUUSD"
      [] s = "btcusd" -> "BTCUSD"
      [] s = "buy"    -> "BUY"
      [] s = "sell"   -> "SELL"
      [] OTHER        -> s

Lower(s) ==
    CASE s = "EURUSD" -> "eurusd"
      [] s = "XAUUSD" -> "xauusd"
      [] s = "BTCUSD" -> "btcusd"
      [] s = "BUY"    -> "buy"
      [] s = "SELL"   -> "sell"
      [] OTHER        -> s

\* symbol.startswith(('XAU', 'XAG'))
IsMetal(symbol) == symbol \in {"XAUUSD", "XAGUSD"}
\* symbol.startswith(('BTC', 'ETH'))
IsCrypto(symbol) == symbol \in {"BTCUSD", "ETHUSD"}

Max(a, b) == IF a >= b THEN a ELSE b
Min(a, b) == IF a <= b THEN a ELSE b
Abs(a) == IF a >= 0 THEN a ELSE -a

----------------------------------------------------------------------------
(* trade_parser.py: validation and sizing of one alert                     *)

\* round(): the nearest integer to num/den, an exact tie going to the even one
RoundHalfEven(num, den) ==
    LET q == num \div den
        r == num % den
    IN  IF 2 * r < den THEN q
        ELSE IF 2 * r > den THEN q + 1
        ELSE IF q % 2 = 0 THEN q ELSE q + 1

\* Lots are counted in units of 0.00001 lot, so that the crypto minimum of
\* 0.00001 is 1 unit, 0.01 lot is LOT_CENT units and 100 lots MAX_LOT_UNITS.
LOT_CENT == 1000
MAX_LOT_UNITS == 10000000
FALLBACK_LOT == 1000

\* round(x, 2) of a lot given in units
Round2(units) == RoundHalfEven(units, LOT_CENT) * LOT_CENT

\* mutant of ContractSize: the metal and crypto multipliers exchanged
ContractSizeSwapped(symbol) ==
    IF IsMetal(symbol) THEN 1
    ELSE IF IsCrypto(symbol) THEN 100
    ELSE 100000

\* contract_size of calculate_lotsize
ContractSize(symbol) ==
    IF IsMetal(symbol) THEN 100
    ELSE IF IsCrypto(symbol) THEN 1
    ELSE 100000

\* min_lot of calculate_lotsize
MinLot(symbol) == IF IsCrypto(symbol) THEN 1 ELSE LOT_CENT

\* price of calculate_lotsize, from the tick [ask, last]
RefPrice(symbol, tick) ==
    IF IsCrypto(symbol) /\ tick.last > 0 THEN tick.last ELSE tick.ask

\* lot_size = risk_amount / (price * contract_size), rounded to 2 decimals, in
\* hundredths of a lot: (balance * LEVERAGE * value / 100) / (price * contract) * 100
RawLotCents(balance, value, price, contract) ==
    RoundHalfEven(balance * LEVERAGE * value, price * contract)

\* final_lot = max(min(round(lot_size, 2), 100), min_lot)
ClampLot(cents, symbol) ==
    Max(Min(cents * LOT_CENT, MAX_LOT_UNITS), MinLot(symbol))

\* mutant of CalculateLotsize: a fault yields no lot instead of the fallback
CalculateLotsizeNoFallback(symbol, cfg, venue) ==
    IF cfg.lot_type = "fixed" THEN Round2(cfg.lot_value)
    ELSE IF ~venue.connectOk \/ ~venue.account THEN 0
    ELSE IF ~venue.selectOk THEN 0
    ELSE IF ~venue.tickOk THEN 0
    ELSE LET sym   == Upper(symbol)
             price == RefPrice(sym, venue.tick)
         IN  IF price * ContractSize(sym) = 0 THEN 0
             ELSE ClampLot(RawLotCents(venue.balance, cfg.lot_value, price,
                                       ContractSize(sym)), sym)

\* calculate_lotsize(symbol, strategy_cfg, strategy_name) against a venue
\* venue = [connectOk, account, balance, selectOk, tickOk, tick]; every raise
\* inside the try block ends in the fallback 0.01
CalculateLotsize(symbol, cfg, venue) ==
    IF cfg.lot_type = "fixed" THEN Round2(cfg.lot_value)
    ELSE IF ~venue.connectOk \/ ~venue.account THEN FALLBACK_LOT
    ELSE IF ~venue.selectOk THEN FALLBACK_LOT
    ELSE IF ~venue.tickOk THEN FALLBACK_LOT
    ELSE LET sym   == Upper(symbol)
             price == RefPrice(sym, venue.tick)
         IN  IF price * ContractSize(sym) = 0 THEN FALLBACK_LOT
             ELSE ClampLot(RawLotCents(venue.balance, cfg.lot_value, price,
                                       ContractSize(sym)), sym)

\* is_recent(signal_time) at wall-clock time t
IsRecent(t, signalTime) == t - signalTime <= FRESH_MINUTES

\* mutant of ValidateSignal: the configured actions and symbols compared as
\* written, without lower() and upper()
ValidateSignalCaseSensitive(signal, cfg) ==
    IF ~cfg.enabled THEN "yes (strg:off)"
    ELSE IF Lower(signal.action) \notin cfg.allowed_actions
         THEN "yes (err:action)"
    ELSE IF Upper(signal.symbol) \notin cfg.allowed_symbols
         THEN "yes (err:symbol)"
    ELSE "no"

\* validate_signal(signal, strategy_cfg)
ValidateSignal(signal, cfg) ==
    IF ~cfg.enabled THEN "yes (strg:off)"
    ELSE IF Lower(signal.action) \notin {Lower(a) : a \in cfg.allowed_actions}
         THEN "yes (err:action)"
    ELSE IF Upper(signal.symbol) \notin {Upper(s) : s \in cfg.allowed_symbols}
         THEN "yes (err:symbol)"
    ELSE "no"

\* status of the body of the loop of process_signals
SignalStatus(signal, config, t) ==
    IF ~IsRecent(t, signal.t) THEN "yes (1min+)"
    ELSE IF signal.strategy \notin DOMAIN config THEN "yes (err:strategy)"
    ELSE ValidateSignal(signal, config[signal.strategy])

\* f"{float(lot_size):.2f}" if lot_size else "": the text written to the
\* store, as a number of hundredths, -1 standing for the empty text
FormatLot(units) == IF units = 0 THEN -1 ELSE RoundHalfEven(units, LOT_CENT)

\* one element of enriched_data
EnrichRow(signal, config, venue, t) ==
    LET status == SignalStatus(signal, config, t)
    IN  [id           |-> signal.id,
         t            |-> signal.t,
         symbol       |-> Upper(signal.symbol),
         action       |-> Lower(signal.action),
         strategy     |-> signal.strategy,
         executed     |-> status,
         lot_size     |-> IF status = "no"
                          THEN FormatLot(CalculateLotsize(signal.symbol,
                                            config[signal.strategy], venue))
                          ELSE -1,
         tpsl_mode    |-> IF status = "no"
                          THEN config[signal.strategy].tpsl_mode ELSE "",
         trade_done   |-> "no",
         ticket       |-> 0,
         execution_price |-> 0,
         executed_at  |-> -1]

----------------------------------------------------------------------------
(* The stores and the passes over them (specification Spec)                *)

\* config.json of Spec: one strategy, fixed lot 0.10
PipeConfig ==
    [stratA |-> [enabled |-> TRUE,
                 allowed_actions |-> {"buy"},
                 allowed_symbols |-> {"EURUSD"},
                 lot_type |-> "fixed",
                 lot_value |-> 10000,
                 tpsl_mode |-> "fixed_pips"]]

\* the venue is not consulted for a fixed lot
NoVenue ==
    [connectOk |-> FALSE, account |-> FALSE, balance |-> 0, selectOk |-> FALSE,
     tickOk |-> FALSE, tick |-> [ask |-> 0, last |-> 0]]

\* drop_duplicates(subset=["timestamp", "symbol", "strategy"], keep="last");
\* the alert id stands for the timestamp text, which is distinct per alert
DedupKey(row) == <<row.id, row.symbol, row.strategy>>

DropDuplicatesKeepLast(rows) ==
    LET keep(i) == \A j \in (i + 1)..Len(rows) : DedupKey(rows[j]) # DedupKey(rows[i])
        F[i \in 0..Len(rows)] ==
            IF i = 0 THEN <<>>
            ELSE IF keep(i) THEN Append(F[i - 1], rows[i]) ELSE F[i - 1]
    IN  F[Len(rows)]

\* load_signals: rows whose timestamp parses with format
\* '%Y-%m-%dT%H:%M:%S.%f' (errors='coerce' turns the others into NaT) and
\* whose executed column is "no"
LoadSignalsTest(row) == row.frac /\ row.executed = "no"
LoadSignals(file) == SelectSeq(file, LoadSignalsTest)

\* original.loc[original["executed"] == "no", "executed"] = "yes"
MarkProcessed(file) ==
    [i \in 1..Len(file) |->
        IF file[i].executed = "no" THEN [file[i] EXCEPT !.executed = "yes"]
        ELSE file[i]]

\* mutant of IsPendingTrade: the executed column is not looked at
IsPendingTradeNoStatus(row) == row.trade_done = "no"

\* pending_trades = df[(df["trade_done"] == "no") & (df["executed"] == "no")]
IsPendingTrade(row) == row.trade_done = "no" /\ row.executed = "no"

PendingIndices(df) ==
    LET F[i \in 0..Len(df)] ==
            IF i = 0 THEN <<>>
            ELSE IF IsPendingTrade(df[i]) THEN Append(F[i - 1], i) ELSE F[i - 1]
    IN  F[Len(df)]

\* What execute_trade returns: an OrderSendResult of an accepted new order
\* ("order"), the TradeResult of a netting close, whose order is 0
\* ("netting"), or None ("none").  SpecExec models the call itself.
ExecuteTradeResults == {"order", "netting", "none"}

AlertIds == 1..MaxAlerts

PipeInit ==
    /\ now = 0
    /\ nextId = 1
    /\ alertFile = <<>>
    /\ enrichedFile = <<>>
    /\ pPc = "idle"
    /\ pRows = <<>>
    /\ pExisting = <<>>
    /\ pOriginal = <<>>
    /\ xPc = "idle"
    /\ xDf = <<>>
    /\ xQueue = <<>>
    /\ accepted = [k \in AlertIds |-> 0]
    /\ attempted = {}

\* the variables of SpecSeq while another specification runs
SeqIdle == runs = 0 /\ before = <<>>

\* the variables of SpecEnrich while another specification runs
EnrichIdle ==
    /\ ePc = "off"
    /\ eSignal = <<>>
    /\ eConfig = <<>>
    /\ eVenue = <<>>
    /\ eNow = 0
    /\ eRow = <<>>
    /\ eLot = 0

\* the variables of SpecExec while another specification runs
ExecIdle ==
    /\ vSession = "closed"
    /\ vPositions = <<>>
    /\ vOpen = {}
    /\ tPc = "off"
    /\ tAction = ""
    /\ tMode = ""
    /\ tMagic = FALSE
    /\ tFound = <<>>
    /\ tIdx = 0
    /\ tResults = <<>>
    /\ tFill = 0
    /\ tResult = ""
    /\ tOrders = <<>>
    /\ tRow = <<>>
    /\ tPass = 0
    /\ tFrom = ""

\* the variables of SpecRisk while another specification runs
RiskIdle ==
    /\ rNow = 0
    /\ rPc = "off"
    /\ rPos = <<>>
    /\ rCfg = <<>>
    /\ rReq = <<>>
    /\ rAttempt = 0
    /\ rTrailed = FALSE
    /\ rLastSl = -1
    /\ rEval = <<>>
    /\ rReqAt = -1
    /\ rAccAt = -1
    /\ rAccBefore = -1
    /\ rInitial = <<>>
    /\ rLast = <<>>

\* the variables of SpecPass while another specification runs
PassIdle ==
    /\ qPc = "off"
    /\ qConfig = <<>>
    /\ qSignals = <<>>
    /\ qIdx = 0
    /\ qRows = <<>>
    /\ qActive = {}
    /\ qConn = "none"
    /\ qResult = ""
    /\ qFaulted = {}
    /\ qAbort = ""
    /\ qUsed = {}

\* the variables of SpecMulti while another specification runs
MultiIdle ==
    /\ mPc = "off"
    /\ mPass = 0
    /\ mStrat = 0
    /\ mConn = "none"
    /\ mCache = {}
    /\ mAccounts = <<>>
    /\ mAllowed = <<>>
    /\ mReads = {}
    /\ mMods = {}

\* the variables of SpecTargets while another specification runs
TargetIdle ==
    /\ gPc = "idle"
    /\ gPos = <<>>
    /\ gCfg = <<>>
    /\ gPrice = 0
    /\ gAccount = <<>>
    /\ gOut = <<>>

\* the variables of SpecSuper while another specification runs
SuperIdle ==
    /\ sRunning = FALSE
    /\ sMain = "idle"
    /\ sSignal = "none"
    /\ sThread = <<>>
    /\ sChild = "off"
    /\ sChildPass = 0
    /\ sAttempt = 0
    /\ sFaultAt = 0
    /\ sFaultKind = "none"
    /\ sLate = {}

\* the wall clock advances
Tick ==
    /\ now < MaxTime
    /\ now' = now + 1
    /\ UNCHANGED <<nextId, alertFile, enrichedFile, pPc, pRows, pExisting,
                   pOriginal, xPc, xDf, xQueue, accepted, attempted>>
    /\ UNCHANGED nonPipeVars

\* tv_server.py webhook with target mt5: one row appended to today's file.
\* timestamp = datetime.now().isoformat() has no fractional part when the
\* microsecond is 0 (frac = FALSE).
Webhook ==
    /\ nextId <= MaxAlerts
    /\ \E sym \in {"eurusd"}, act \in {"BUY", "sell"}, frac \in BOOLEAN :
          alertFile' = Append(alertFile,
                              [id |-> nextId, t |-> now, frac |-> frac,
                               symbol |-> Upper(sym), action |-> Lower(act),
                               strategy |-> "stratA", executed |-> "no"])
    /\ nextId' = nextId + 1
    /\ UNCHANGED <<now, enrichedFile, pPc, pRows, pExisting, pOriginal, xPc,
                   xDf, xQueue, accepted, attempted>>
    /\ UNCHANGED nonPipeVars

\* trade_parser.py process_signals: nothing to do when no row is loaded
ParserProcessSignals ==
    /\ pPc = "idle"
    /\ LoadSignals(alertFile) # <<>>
    /\ pRows' = [i \in 1..Len(LoadSignals(alertFile)) |->
                    EnrichRow(LoadSignals(alertFile)[i], PipeConfig, NoVenue, now)]
    /\ pPc' = "save_read"
    /\ UNCHANGED <<now, nextId, alertFile, enrichedFile, pExisting, pOriginal,
                   xPc, xDf, xQueue, accepted, attempted>>
    /\ UNCHANGED nonPipeVars

\* save_and_mark_processed: existing_data = pd.read_csv(enriched_file)
ParserReadExisting ==
    /\ pPc = "save_read"
    /\ pExisting' = enrichedFile
    /\ pPc' = "save_write"
    /\ UNCHANGED <<now, nextId, alertFile, enrichedFile, pRows, pOriginal,
                   xPc, xDf, xQueue, accepted, attempted>>
    /\ UNCHANGED nonPipeVars

\* save_and_mark_processed: concat, drop_duplicates, to_csv
ParserWriteEnriched ==
    /\ pPc = "save_write"
    /\ enrichedFile' = DropDuplicatesKeepLast(pExisting \o pRows)
    /\ pPc' = "mark_read"
    /\ UNCHANGED <<now, nextId, alertFile, pRows, pExisting, pOriginal,
                   xPc, xDf, xQueue, accepted, attempted>>
    /\ UNCHANGED nonPipeVars

\* save_and_mark_processed: original = pd.read_csv(signal_file)
ParserReadOriginal ==
    /\ pPc = "mark_read"
    /\ pOriginal' = alertFile
    /\ pPc' = "mark_write"
    /\ UNCHANGED <<now, nextId, alertFile, enrichedFile, pRows, pExisting,
                   xPc, xDf, xQueue, accepted, attempted>>
    /\ UNCHANGED nonPipeVars

\* save_and_mark_processed: every "no" becomes "yes", original.to_csv
ParserMarkProcessed ==
    /\ pPc = "mark_write"
    /\ alertFile' = MarkProcessed(pOriginal)
    /\ pPc' = "idle"
    /\ pRows' = <<>>
    /\ pExisting' = <<>>
    /\ pOriginal' = <<>>
    /\ UNCHANGED <<now, nextId, enrichedFile, xPc, xDf, xQueue, accepted,
                   attempted>>
    /\ UNCHANGED nonPipeVars

\* trade_executor.py process_signals up to the loop: the pass ends at once
\* when the file is missing or no row is pending
ExecutorRead ==
    /\ xPc = "idle"
    /\ PendingIndices(enrichedFile) # <<>>
    /\ xDf' = enrichedFile
    /\ xQueue' = PendingIndices(enrichedFile)
    /\ xPc' = "loop"
    /\ UNCHANGED <<now, nextId, alertFile, enrichedFile, pPc, pRows, pExisting,
                   pOriginal, accepted, attempted>>
    /\ UNCHANGED nonPipeVars

\* mutant of StampRow: only the result of an accepted new order is stamped
StampRowOrderOnly(row, result, t) ==
    IF result # "order" THEN row
    ELSE [row EXCEPT !.trade_done = "yes",
                     !.executed = "yes",
                     !.executed_at = t,
                     !.ticket = row.id,
                     !.execution_price = 1]

\* mutant of StampRow: the execution time is not written
StampRowNoTime(row, result, t) ==
    [row EXCEPT !.trade_done = "yes",
                !.executed = "yes",
                !.ticket = IF result = "order" THEN row.id ELSE row.ticket,
                !.execution_price = IF result = "order" THEN 1
                                    ELSE row.execution_price]

\* the row stamped after a result that is not None: ticket and
\* execution_price only when result.order != 0
StampRow(row, result, t) ==
    [row EXCEPT !.trade_done = "yes",
                !.executed = "yes",
                !.executed_at = t,
                !.ticket = IF result = "order" THEN row.id ELSE row.ticket,
                !.execution_price = IF result = "order" THEN 1
                                    ELSE row.execution_price]

\* one iteration of the loop of process_signals: execute_trade, and on a
\* result the row is stamped and the whole snapshot df written to the store
ExecutorTrade ==
    /\ xPc = "loop"
    /\ \E result \in ExecuteTradeResults :
          LET i  == Head(xQueue)
              id == xDf[i].id
              df == IF result = "none" THEN xDf
                    ELSE [xDf EXCEPT ![i] = StampRow(xDf[i], result, now)]
          IN  /\ attempted' = attempted \cup {id}
              /\ accepted' = IF result = "order"
                             THEN [accepted EXCEPT ![id] = @ + 1]
                             ELSE accepted
              /\ xDf' = IF Tail(xQueue) = <<>> THEN <<>> ELSE df
              /\ enrichedFile' = IF result = "none" THEN enrichedFile ELSE df
    /\ xQueue' = Tail(xQueue)
    /\ xPc' = IF Tail(xQueue) = <<>> THEN "idle" ELSE "loop"
    /\ UNCHANGED <<now, nextId, alertFile, pPc, pRows, pExisting, pOriginal>>
    /\ UNCHANGED nonPipeVars

Next ==
    \/ Tick
    \/ Webhook
    \/ ParserProcessSignals
    \/ ParserReadExisting
    \/ ParserWriteEnriched
    \/ ParserReadOriginal
    \/ ParserMarkProcessed
    \/ ExecutorRead
    \/ ExecutorTrade

Init ==
    /\ PipeInit /\ SeqIdle /\ EnrichIdle /\ ExecIdle /\ RiskIdle
    /\ PassIdle /\ MultiIdle /\ TargetIdle /\ SuperIdle

Spec == Init /\ [][Next]_vars

----------------------------------------------------------------------------
(* Claims about the stores, checked under Spec *)

\* Rejected by Enrichment: any "yes (...)" status
IsRejected(row) == row.executed \notin {"no", "yes"}

\* C1: the venue accepts at most one new-position market order per
\* EnrichedSignal, over all passes and interleavings.
C1_AtMostOneOrder == \A k \in AlertIds : accepted[k] <= 1

\* C2: a record stored as Executed or Rejected is never later stored as
\* PendingExecution.
C2_LifecycleMonotonic ==
    [][\A i \in 1..Len(enrichedFile) :
          ~IsPendingTrade(enrichedFile[i]) =>
              \A j \in 1..Len(enrichedFile') :
                  enrichedFile'[j].id = enrichedFile[i].id =>
                      ~IsPendingTrade(enrichedFile'[j])]_vars

\* C4: execute_trade is never called for a record that Enrichment rejected.
C4_NoAttemptForRejected ==
    /\ \A i \in 1..Len(enrichedFile) :
          IsRejected(enrichedFile[i]) => enrichedFile[i].id \notin attempted
    /\ \A i \in 1..Len(xDf) :
          IsRejected(xDf[i]) => xDf[i].id \notin attempted

\* C4 witness: an Execution pass is iterating over a snapshot that holds a
\* Rejected record, and has already called execute_trade.
C4_Witness ==
    /\ xPc = "loop"
    /\ attempted # {}
    /\ \E i \in 1..Len(xDf) : IsRejected(xDf[i])

\* C16: a signal that stayed PendingExecution after an attempt is not
\* attempted again once its alert is older than the freshness window.
C16_NoStaleRetry ==
    [][(/\ xPc = "loop"
        /\ xQueue # <<>>
        /\ xQueue' = Tail(xQueue)
        /\ xDf[Head(xQueue)].id \in attempted
        /\ accepted[xDf[Head(xQueue)].id] = 0)
       => now - xDf[Head(xQueue)].t <= 1]_vars

\* C29: every alert the listener appended is still in the alert store, and
\* every alert marked consumed has an EnrichedSignal in the enriched store.
C29_NoAlertLost ==
    \A k \in 1..(nextId - 1) :
        \E i \in 1..Len(alertFile) :
            /\ alertFile[i].id = k
            /\ alertFile[i].executed = "yes" =>
                  \E j \in 1..Len(enrichedFile) : enrichedFile[j].id = k

\* C30: an EnrichedSignal written to the enriched store is never removed
\* from it.
C30_NeverRemoved ==
    [][\A i \in 1..Len(enrichedFile) :
          \E j \in 1..Len(enrichedFile') :
              enrichedFile'[j].id = enrichedFile[i].id]_vars

----------------------------------------------------------------------------
(* Enrichment passes run one after the other over a given alert store      *)
(* (specification SpecSeq)                                                 *)

\* the main block of trade_parser.py: process_signals, then
\* save_and_mark_processed unless process_signals returned None
EnrichmentPass(alerts, enriched, t) ==
    LET signals == LoadSignals(alerts)
        rows    == [i \in 1..Len(signals) |->
                       EnrichRow(signals[i], PipeConfig, NoVenue, t)]
    IN  IF signals = <<>>
        THEN [alertFile |-> alerts, enrichedFile |-> enriched]
        ELSE [alertFile |-> MarkProcessed(alerts),
              enrichedFile |-> DropDuplicatesKeepLast(enriched \o rows)]

\* the rows the listener can have written by time t
AlertRows(id, t) ==
    {[id |-> id, t |-> at, frac |-> frac, symbol |-> "EURUSD", action |-> act,
      strategy |-> "stratA", executed |-> "no"] :
        at \in 0..t, frac \in BOOLEAN, act \in {"buy", "sell"}}

SeqInit ==
    /\ now \in 0..MaxTime
    /\ \E n \in 1..MaxAlerts :
          /\ nextId = n + 1
          /\ alertFile \in {f \in [1..n -> UNION {AlertRows(i, now) : i \in 1..n}] :
                               \A i \in 1..n : f[i].id = i}
    /\ enrichedFile = <<>>
    /\ pPc = "idle"
    /\ pRows = <<>>
    /\ pExisting = <<>>
    /\ pOriginal = <<>>
    /\ xPc = "idle"
    /\ xDf = <<>>
    /\ xQueue = <<>>
    /\ accepted = [k \in AlertIds |-> 0]
    /\ attempted = {}
    /\ runs = 0
    /\ before = <<>>
    /\ EnrichIdle
    /\ ExecIdle
    /\ RiskIdle
    /\ PassIdle
    /\ MultiIdle
    /\ TargetIdle
    /\ SuperIdle

\* one run of trade_parser.py
SeqPass ==
    /\ runs < MaxRuns
    /\ runs' = runs + 1
    /\ before' = <<alertFile, enrichedFile>>
    /\ alertFile' = EnrichmentPass(alertFile, enrichedFile, now).alertFile
    /\ enrichedFile' = EnrichmentPass(alertFile, enrichedFile, now).enrichedFile
    /\ UNCHANGED <<now, nextId, pPc, pRows, pExisting, pOriginal, xPc, xDf,
                   xQueue, accepted, attempted>>
    /\ UNCHANGED nonSeqVars

\* time passes between two runs
SeqTick ==
    /\ now < MaxTime
    /\ now' = now + 1
    /\ UNCHANGED <<nextId, alertFile, enrichedFile, pPc, pRows, pExisting,
                   pOriginal, xPc, xDf, xQueue, accepted, attempted>>
    /\ UNCHANGED <<seqVars, nonSeqVars>>

SeqNext == SeqPass \/ SeqTick

SpecSeq == SeqInit /\ [][SeqNext]_vars

\* C3: after two Enrichment passes over an unchanged alert set there is
\* exactly one EnrichedSignal per key, every AlertRecord is consumed, and the
\* second pass changed neither store.
C3_TwoRunsIdempotent ==
    runs >= 2 =>
        /\ \A i \in 1..Len(alertFile) :
              /\ alertFile[i].executed = "yes"
              /\ Cardinality({j \in 1..Len(enrichedFile) :
                                 enrichedFile[j].id = alertFile[i].id}) = 1
        /\ before = <<alertFile, enrichedFile>>

----------------------------------------------------------------------------
(* Validation and sizing of one alert (specification SpecEnrich)           *)

EnrichSymbols == {"EURUSD", "XAUUSD", "BTCUSD"}

\* strategy entries of config.json; lot_value is in lot units for a fixed lot
\* and a percentage for a percentage lot
EnrichCfgs ==
    [enabled : BOOLEAN,
     allowed_actions : {{"BUY"}, {"buy", "sell"}},
     allowed_symbols : {{"eurusd", "XAUUSD", "btcusd"}, {"XAUUSD"}},
     lot_type : {"fixed"},
     lot_value : {10000, 1500},
     tpsl_mode : {"fixed_pips"}]
    \cup
    [enabled : BOOLEAN,
     allowed_actions : {{"BUY"}, {"buy", "sell"}},
     allowed_symbols : {{"eurusd", "XAUUSD", "btcusd"}, {"XAUUSD"}},
     lot_type : {"percentage"},
     lot_value : {1, 2},
     tpsl_mode : {"fixed_pips"}]

\* ticks of the venue, in whole units of the quote currency
EnrichTicks(symbol) ==
    IF IsMetal(symbol) THEN {[ask |-> 2000, last |-> 0]}
    ELSE IF IsCrypto(symbol)
         THEN {[ask |-> 50000, last |-> 0], [ask |-> 50000, last |-> 60000]}
    ELSE {[ask |-> 1, last |-> 0], [ask |-> 2, last |-> 0]}

EnrichBalances == {0, 40, 100, 10000, 1000000}

\* a venue that answers every call, and the venues that fail one call
EnrichVenues(symbol) ==
    [connectOk : {TRUE}, account : {TRUE}, balance : EnrichBalances,
     selectOk : {TRUE}, tickOk : {TRUE}, tick : EnrichTicks(symbol)]
    \cup
    {[connectOk |-> c, account |-> a, balance |-> 10000, selectOk |-> s,
      tickOk |-> k, tick |-> [ask |-> 0, last |-> 0]] :
        c \in BOOLEAN, a \in BOOLEAN, s \in BOOLEAN, k \in {FALSE}}

EnrichInit ==
    /\ ePc = "input"
    /\ eNow \in {1, 2}
    /\ eSignal \in [id : {1}, t : {0}, frac : {TRUE}, symbol : EnrichSymbols,
                    action : {"buy", "sell"}, strategy : {"stratA", "stratB"},
                    executed : {"no"}]
    /\ \E cfg \in EnrichCfgs : eConfig = [stratA |-> cfg]
    /\ eVenue \in EnrichVenues(eSignal.symbol)
    /\ eRow = <<>>
    /\ eLot = 0
    /\ PipeInit
    /\ SeqIdle
    /\ ExecIdle
    /\ RiskIdle
    /\ PassIdle
    /\ MultiIdle
    /\ TargetIdle
    /\ SuperIdle

\* the body of the loop of process_signals for one alert
EnrichSignal ==
    /\ ePc = "input"
    /\ ePc' = "done"
    /\ eRow' = EnrichRow(eSignal, eConfig, eVenue, eNow)
    /\ eLot' = IF SignalStatus(eSignal, eConfig, eNow) = "no"
               THEN CalculateLotsize(eSignal.symbol, eConfig[eSignal.strategy],
                                     eVenue)
               ELSE -1
    /\ UNCHANGED <<eSignal, eConfig, eVenue, eNow>>
    /\ UNCHANGED nonEnrichVars

EnrichNext == EnrichSignal

SpecEnrich == EnrichInit /\ [][EnrichNext]_vars

IsRounded2(cents, balance, riskPercent, price, multiplier) ==
    2 * Abs(balance * 500 * riskPercent - cents * price * multiplier)
        <= price * multiplier

\* the multiplier the claim names
ClaimMultiplier(symbol) ==
    IF symbol \in {"XAUUSD", "XAGUSD"} THEN 100
    ELSE IF symbol \in {"BTCUSD", "ETHUSD"} THEN 1
    ELSE 100000

\* a percentage lot was computed from the balance and the tick
SizedByFormula ==
    /\ ePc = "done"
    /\ eLot # -1
    /\ eConfig.stratA.lot_type = "percentage"
    /\ eVenue.connectOk /\ eVenue.account /\ eVenue.selectOk /\ eVenue.tickOk

\* the reference price of the sized alert
SizedPrice ==
    IF eSignal.symbol \in {"BTCUSD", "ETHUSD"} /\ eVenue.tick.last > 0
    THEN eVenue.tick.last ELSE eVenue.tick.ask

\* the inputs of the worked example: balance 10000, riskPercent 1, price
\* 2000, multiplier 100
IsWorkedExample ==
    /\ SizedByFormula
    /\ eVenue.balance = 10000
    /\ eConfig.stratA.lot_value = 1
    /\ SizedPrice = 2000
    /\ ClaimMultiplier(eSignal.symbol) = 100

\* C10 as stated: the size is the formula rounded to 2 decimals, and the
\* worked example gives 2.50.
C10_AsStated ==
    /\ SizedByFormula =>
          /\ eLot % LOT_CENT = 0
          /\ IsRounded2(eLot \div LOT_CENT, eVenue.balance,
                        eConfig.stratA.lot_value, SizedPrice,
                        ClaimMultiplier(eSignal.symbol))
    /\ IsWorkedExample => eLot = 250 * LOT_CENT

\* C10 amended: the size is the formula rounded to 2 decimals and then
\* clamped to [instrumentMinLot, 100], and the worked example gives 0.25.
C10_SizingFormula ==
    /\ SizedByFormula =>
          \E cents \in 0..((eVenue.balance * 500 * eConfig.stratA.lot_value)
                               \div (SizedPrice * ClaimMultiplier(eSignal.symbol))
                           + 1) :
              /\ IsRounded2(cents, eVenue.balance, eConfig.stratA.lot_value,
                            SizedPrice, ClaimMultiplier(eSignal.symbol))
              /\ eLot = Max(Min(cents * 1000, 100 * 100000),
                            IF eSignal.symbol \in {"BTCUSD", "ETHUSD"}
                            THEN 1 ELSE 1000)
    /\ IsWorkedExample => eLot = 25 * LOT_CENT

\* C10 witness: the worked example has been sized.
C10_Witness == IsWorkedExample /\ eLot = 25000

\* the instrument minimum the claims name, in lot units
ClaimMinLot(symbol) == IF symbol \in {"BTCUSD", "ETHUSD"} THEN 1 ELSE LOT_CENT

\* C11: the lot size written to the enriched store for a PendingExecution
\* signal sized in percent-of-balance mode lies in [instrumentMinLot, 100].
C11_WrittenLotInRange ==
    (/\ ePc = "done"
     /\ eRow.executed = "no"
     /\ eConfig.stratA.lot_type = "percentage") =>
        /\ eRow.lot_size * LOT_CENT >= ClaimMinLot(eRow.symbol)
        /\ eRow.lot_size * LOT_CENT <= MAX_LOT_UNITS

----------------------------------------------------------------------------
(* trade_parser.py: one run over the alerts of several strategies          *)
(* (specification SpecPass)                                                *)

PassStrategies == {"stratA", "stratB"}

\* entries of config["strategies"]; is_object is FALSE for an entry that is
\* not a JSON object (null), on which strategy_cfg.get raises
PassCfgs ==
    [enabled : {TRUE},
     allowed_actions : {{"buy", "sell"}},
     allowed_symbols : {{"EURUSD", "BTCUSD"}},
     lot_type : {"fixed"},
     lot_value : {10000},
     tpsl_mode : {"fixed_pips"},
     is_object : BOOLEAN]
    \cup
    [enabled : {TRUE},
     allowed_actions : {{"buy", "sell"}},
     allowed_symbols : {{"EURUSD", "BTCUSD"}},
     lot_type : {"percentage"},
     lot_value : {1},
     tpsl_mode : {"fixed_pips"},
     is_object : BOOLEAN]

\* account.balance of the account the module is connected to
PassBalance(account) ==
    CASE account = "stratA" -> 10000
      [] account = "stratB" -> 1000000
      [] OTHER              -> 100

\* rows of the alert file written by the listener
PassAlerts(id) ==
    [id : {id}, t : {0}, frac : {TRUE}, symbol : {"EURUSD", "BTCUSD"},
     action : {"buy"}, strategy : PassStrategies, executed : {"no"}]

\* a call of calculate_lotsize met a fault at this venue
SizingFault(venue) ==
    ~venue.connectOk \/ ~venue.account \/ ~venue.selectOk \/ ~venue.tickOk

PassInit ==
    /\ now \in 1..MaxTime
    /\ \E n \in 1..MaxAlerts :
          /\ nextId = n + 1
          /\ alertFile \in {f \in [1..n -> UNION {PassAlerts(i) : i \in 1..n}] :
                               \A i \in 1..n : f[i].id = i}
    /\ enrichedFile = <<>>
    /\ pPc = "idle"
    /\ pRows = <<>>
    /\ pExisting = <<>>
    /\ pOriginal = <<>>
    /\ xPc = "idle"
    /\ xDf = <<>>
    /\ xQueue = <<>>
    /\ accepted = [k \in AlertIds |-> 0]
    /\ attempted = {}
    /\ qPc = "load"
    /\ qConfig \in [PassStrategies -> PassCfgs]
    /\ qSignals = <<>>
    /\ qIdx = 0
    /\ qRows = <<>>
    /\ qActive = {}
    /\ qConn = "default"
    /\ qResult = ""
    /\ qFaulted = {}
    /\ qAbort = ""
    /\ qUsed = {}
    /\ SeqIdle
    /\ EnrichIdle
    /\ ExecIdle
    /\ RiskIdle
    /\ MultiIdle
    /\ TargetIdle
    /\ SuperIdle

\* process_signals up to its loop: load_config, load_signals; an exception
\* or an empty frame makes it return None
PassLoad ==
    /\ qPc = "load"
    /\ \E configOk \in BOOLEAN :
          IF ~configOk
          THEN /\ qResult' = "none" /\ qAbort' = "config" /\ qPc' = "main"
               /\ UNCHANGED <<qSignals, qIdx>>
          ELSE IF LoadSignals(alertFile) = <<>>
          THEN /\ qResult' = "none" /\ qAbort' = "empty" /\ qPc' = "main"
               /\ UNCHANGED <<qSignals, qIdx>>
          ELSE /\ qSignals' = LoadSignals(alertFile)
               /\ qIdx' = 1
               /\ qPc' = "loop"
               /\ UNCHANGED <<qResult, qAbort>>
    /\ UNCHANGED <<qConfig, qRows, qActive, qConn, qFaulted, qUsed>>
    /\ UNCHANGED pipeVars
    /\ UNCHANGED nonPassVars

\* one iteration of the loop of process_signals.  The only handler is the
\* one around the whole function, so an exception raised by validate_signal
\* makes process_signals return None.  get_balance connects only when the
\* strategy is not in _active_connections, and account_info answers for the
\* account the module is connected to.
PassSignal ==
    /\ qPc = "loop"
    /\ qIdx <= Len(qSignals)
    /\ LET signal == qSignals[qIdx]
           s      == signal.strategy
       IN  IF IsRecent(now, signal.t) /\ ~qConfig[s].is_object
           THEN /\ qResult' = "none" /\ qAbort' = "policy" /\ qPc' = "main"
                /\ UNCHANGED <<qIdx, qRows, qActive, qConn, qFaulted, qUsed>>
           ELSE \E c \in BOOLEAN, a \in BOOLEAN, sel \in BOOLEAN, k \in BOOLEAN,
                   tk \in EnrichTicks(Upper(signal.symbol)) :
                  LET sized    == /\ SignalStatus(signal, qConfig, now) = "no"
                                  /\ qConfig[s].lot_type = "percentage"
                      connects == sized /\ s \notin qActive
                      conn     == IF connects THEN (IF c THEN s ELSE "none")
                                  ELSE qConn
                      venue    == [connectOk |-> ~connects \/ c,
                                   account   |-> a /\ conn # "none",
                                   balance   |-> PassBalance(conn),
                                   selectOk  |-> sel,
                                   tickOk    |-> k,
                                   tick      |-> tk]
                  IN  /\ qRows' = Append(qRows, EnrichRow(signal, qConfig, venue, now))
                      /\ qActive' = IF connects /\ c THEN qActive \cup {s}
                                     ELSE qActive
                      /\ qConn' = conn
                      /\ qFaulted' = IF sized /\ SizingFault(venue)
                                      THEN qFaulted \cup {signal.id}
                                      ELSE qFaulted
                      /\ qUsed' = IF sized /\ venue.connectOk /\ venue.account
                                   THEN qUsed \cup {<<s, conn>>}
                                   ELSE qUsed
                      /\ qIdx' = qIdx + 1
                      /\ UNCHANGED <<qResult, qAbort, qPc>>
    /\ UNCHANGED <<qConfig, qSignals>>
    /\ UNCHANGED pipeVars
    /\ UNCHANGED nonPassVars

\* return pd.DataFrame(enriched_data)
PassReturn ==
    /\ qPc = "loop"
    /\ qIdx > Len(qSignals)
    /\ qResult' = "frame"
    /\ qPc' = "main"
    /\ UNCHANGED <<qConfig, qSignals, qIdx, qRows, qActive, qConn, qFaulted,
                   qAbort, qUsed>>
    /\ UNCHANGED pipeVars
    /\ UNCHANGED nonPassVars

\* the main block: save_and_mark_processed when process_signals returned a
\* frame, then mt5.shutdown()
PassMain ==
    /\ qPc = "main"
    /\ IF qResult = "frame"
       THEN /\ enrichedFile' = DropDuplicatesKeepLast(enrichedFile \o qRows)
            /\ alertFile' = MarkProcessed(alertFile)
       ELSE UNCHANGED <<enrichedFile, alertFile>>
    /\ qPc' = "done"
    /\ qConn' = "none"
    /\ UNCHANGED <<now, nextId, pPc, pRows, pExisting, pOriginal, xPc, xDf,
                   xQueue, accepted, attempted>>
    /\ UNCHANGED <<qConfig, qSignals, qIdx, qRows, qActive, qResult, qFaulted,
                   qAbort, qUsed>>
    /\ UNCHANGED nonPassVars

PassNext == PassLoad \/ PassSignal \/ PassReturn \/ PassMain

SpecPass == PassInit /\ [][PassNext]_vars

\* C12: a fault during the lot-size computation of a valid alert leaves the
\* alert emitted as PendingExecution with the fallback lot 0.01, and the
\* pass goes on to the remaining alerts.
C12_SizingFaultTolerated ==
    /\ \A id \in qFaulted :
          \E i \in 1..Len(qRows) :
              /\ qRows[i].id = id
              /\ qRows[i].executed = "no"
              /\ qRows[i].lot_size = 1
    /\ (qPc = "done" /\ qResult = "frame") =>
          /\ \A j \in 1..Len(qSignals) :
                \E i \in 1..Len(enrichedFile) : enrichedFile[i].id = qSignals[j].id
          /\ \A id \in qFaulted :
                \E i \in 1..Len(enrichedFile) :
                    /\ enrichedFile[i].id = id
                    /\ enrichedFile[i].executed = "no"
                    /\ enrichedFile[i].trade_done = "no"
                    /\ enrichedFile[i].lot_size = 1

\* C12 witness: the sizing of the first of several alerts met a fault and
\* the pass was completed and saved.
C12_Witness ==
    /\ qPc = "done"
    /\ qResult = "frame"
    /\ Len(qSignals) >= 2
    /\ qSignals[1].id \in qFaulted
    /\ Len(enrichedFile) = Len(qSignals)

\* C13: when the policy entry of one strategy raises a fault, every alert
\* of the other strategies is still enriched, stored and marked consumed in
\* that pass.
C13_FaultIsolation ==
    (qPc = "done" /\ qAbort = "policy") =>
        \A j \in 1..Len(alertFile) :
            qConfig[alertFile[j].strategy].is_object =>
                /\ \E i \in 1..Len(enrichedFile) :
                      enrichedFile[i].id = alertFile[j].id
                /\ alertFile[j].executed = "yes"

\* SpecBalance: one run of trade_parser.py over fresh, valid alerts of
\* strategies that size by percentage of balance, each strategy with its own
\* venue account.
BalanceInit ==
    /\ now = 1
    /\ \E n \in 2..MaxPassAlerts :
          /\ nextId = n + 1
          /\ alertFile \in {f \in [1..n -> [id : 1..n, t : {1}, frac : {TRUE},
                                             symbol : {"EURUSD"}, action : {"buy"},
                                             strategy : PassStrategies,
                                             executed : {"no"}]] :
                               \A i \in 1..n : f[i].id = i}
    /\ enrichedFile = <<>>
    /\ pPc = "idle"
    /\ pRows = <<>>
    /\ pExisting = <<>>
    /\ pOriginal = <<>>
    /\ xPc = "idle"
    /\ xDf = <<>>
    /\ xQueue = <<>>
    /\ accepted = [k \in AlertIds |-> 0]
    /\ attempted = {}
    /\ qPc = "load"
    /\ qConfig \in [PassStrategies ->
                       {c \in PassCfgs : c.lot_type = "percentage" /\ c.is_object}]
    /\ qSignals = <<>>
    /\ qIdx = 0
    /\ qRows = <<>>
    /\ qActive = {}
    /\ qConn = "default"
    /\ qResult = ""
    /\ qFaulted = {}
    /\ qAbort = ""
    /\ qUsed = {}
    /\ SeqIdle
    /\ EnrichIdle
    /\ ExecIdle
    /\ RiskIdle
    /\ MultiIdle
    /\ TargetIdle
    /\ SuperIdle

SpecBalance == BalanceInit /\ [][PassNext]_vars

\* C31: the balance used to size an alert of strategy S is the balance of
\* S's own venue account.
C31_OwnBalance ==
    \A u \in qUsed : u[2] = u[1]

----------------------------------------------------------------------------
(* trade_executor.py: one call of execute_trade (specification SpecExec)   *)
(*                                                                         *)
(* The MetaTrader5 module holds one connection per process: initialize     *)
(* opens it, shutdown closes it, and every other call made while it is     *)
(* closed returns None.                                                    *)

MAGIC_NUMBER == 123456

\* mutant of FILLING_MODES: IOC tried before FOK
FillingModesIocFirst == <<"IOC", "FOK", "RETURN">>

\* FILLING_MODES, in the order of the dictionary
FILLING_MODES == <<"FOK", "IOC", "RETURN">>

\* mutant of SessionAfterClosePositions: close_positions leaves the
\* connection as it found it
SessionKeptOpen(session) == session

\* the finally block of close_positions: mt5.shutdown()
SessionAfterClosePositions(session) == "closed"

\* get_open_positions: the open positions of the symbol, those of another
\* magic number left out under magic_restriction; None when no session is open
GetOpenPositions(magic_restriction) ==
    IF vSession # "open" THEN {}
    ELSE {p \in vOpen : magic_restriction => vPositions[p].magic = MAGIC_NUMBER}

\* opposite_positions of execute_trade
IsOpposite(action, type) ==
    \/ Lower(action) = "buy" /\ type = "SELL"
    \/ Lower(action) = "sell" /\ type = "BUY"

\* the elements of a set of tickets in ascending order
RECURSIVE SortedSeq(_)
SortedSeq(S) ==
    IF S = {} THEN <<>>
    ELSE LET m == CHOOSE x \in S : \A y \in S : x <= y
         IN  <<m>> \o SortedSeq(S \ {m})

\* all(r.retcode == mt5.TRADE_RETCODE_DONE for r in results if r is not None)
AllDone(results) == \A i \in 1..Len(results) : results[i]

ExecInit ==
    /\ vSession = "closed"
    /\ \E n \in 0..MaxPositions :
          vPositions \in [1..n -> [type : {"BUY", "SELL"},
                                   magic : {MAGIC_NUMBER, 0}]]
    /\ vOpen = DOMAIN vPositions
    /\ tPc = "begin"
    /\ tAction \in {"buy", "sell"}
    /\ tMode \in {"off", "close", "netting"}
    /\ tMagic \in BOOLEAN
    /\ tFound = <<>>
    /\ tIdx = 0
    /\ tResults = <<>>
    /\ tFill = 0
    /\ tResult = ""
    /\ tOrders = <<>>
    /\ tRow = [id |-> 1, trade_done |-> "no", executed |-> "no", ticket |-> 0,
               execution_price |-> 0, executed_at |-> -1]
    /\ tPass = 1
    /\ tFrom = ""
    /\ PipeInit
    /\ SeqIdle
    /\ EnrichIdle
    /\ RiskIdle
    /\ PassIdle
    /\ MultiIdle
    /\ TargetIdle
    /\ SuperIdle

\* mutant of ExecReturn: no mt5.shutdown() on the way out
ExecReturnNoShutdown(result, enteredTry) ==
    /\ tResult' = result
    /\ tPc' = "returned"
    /\ tFrom' = tPc
    /\ vSession' = vSession

\* execute_trade returns: the finally block shuts the connection down when
\* the try block was entered
ExecReturn(result, enteredTry) ==
    /\ tResult' = result
    /\ tPc' = "returned"
    /\ tFrom' = tPc
    /\ vSession' = IF enteredTry THEN "closed" ELSE vSession

\* load_config and get_terminal_path, before the try block
ExecuteTradeBegin ==
    /\ tPc = "begin"
    /\ \E configOk \in BOOLEAN, pathOk \in BOOLEAN :
          IF configOk /\ pathOk
          THEN tPc' = "initialize" /\ UNCHANGED <<tResult, tFrom, vSession>>
          ELSE ExecReturn("none", FALSE)
    /\ UNCHANGED <<vPositions, vOpen, tAction, tMode, tMagic, tFound, tIdx,
                   tResults, tFill, tOrders>>
    /\ UNCHANGED <<tRow, tPass>>
    /\ UNCHANGED nonExecVars

\* mt5.initialize(path=terminal_path, timeout=10000)
ExecuteTradeInitialize ==
    /\ tPc = "initialize"
    /\ \E ok \in BOOLEAN :
          IF ok
          THEN tPc' = "select" /\ vSession' = "open" /\ UNCHANGED <<tResult, tFrom>>
          ELSE ExecReturn("none", TRUE)
    /\ UNCHANGED <<vPositions, vOpen, tAction, tMode, tMagic, tFound, tIdx,
                   tResults, tFill, tOrders>>
    /\ UNCHANGED <<tRow, tPass>>
    /\ UNCHANGED nonExecVars

\* mt5.symbol_select(symbol, True)
ExecuteTradeSelect ==
    /\ tPc = "select"
    /\ \E ok \in BOOLEAN :
          IF ok /\ vSession = "open"
          THEN /\ tPc' = IF tMode # "off" THEN "positions" ELSE "tick"
               /\ UNCHANGED <<tResult, tFrom, vSession>>
          ELSE ExecReturn("none", TRUE)
    /\ UNCHANGED <<vPositions, vOpen, tAction, tMode, tMagic, tFound, tIdx,
                   tResults, tFill, tOrders>>
    /\ UNCHANGED <<tRow, tPass>>
    /\ UNCHANGED nonExecVars

\* positions = get_open_positions(...); opposite_positions = [...]
ExecuteTradeOpposite ==
    /\ tPc = "positions"
    /\ tFound' = SortedSeq({p \in GetOpenPositions(tMagic) :
                               IsOpposite(tAction, vPositions[p].type)})
    /\ tPc' = IF tFound' # <<>> THEN "close_begin" ELSE "tick"
    /\ UNCHANGED <<vSession, vPositions, vOpen, tAction, tMode, tMagic, tIdx,
                   tResults, tFill, tResult, tFrom, tOrders>>
    /\ UNCHANGED <<tRow, tPass>>
    /\ UNCHANGED nonExecVars

\* close_positions up to its loop: get_terminal_path, mt5.initialize; a
\* False from close_positions makes execute_trade return None
ClosePositionsBegin ==
    /\ tPc = "close_begin"
    /\ \E pathOk \in BOOLEAN, initOk \in BOOLEAN :
          IF pathOk /\ initOk
          THEN /\ tPc' = "close_loop"
               /\ vSession' = "open"
               /\ tIdx' = 1
               /\ tResults' = <<>>
               /\ UNCHANGED <<tResult, tFrom>>
          ELSE /\ ExecReturn("none", TRUE)
               /\ UNCHANGED <<tIdx, tResults>>
    /\ UNCHANGED <<vPositions, vOpen, tAction, tMode, tMagic, tFound, tFill,
                   tOrders>>
    /\ UNCHANGED <<tRow, tPass>>
    /\ UNCHANGED nonExecVars

\* one iteration of the loop of close_positions: no tick, continue;
\* otherwise order_send, whose result is appended to results
ClosePositionsOne ==
    /\ tPc = "close_loop"
    /\ tIdx <= Len(tFound)
    /\ \E tickOk \in BOOLEAN, done \in BOOLEAN :
          IF ~tickOk
          THEN UNCHANGED <<vOpen, tResults, tOrders>>
          ELSE /\ tOrders' = Append(tOrders, [kind |-> "close",
                                              arg |-> tFound[tIdx],
                                              done |-> done])
               /\ tResults' = Append(tResults, done)
               /\ vOpen' = IF done THEN vOpen \ {tFound[tIdx]} ELSE vOpen
    /\ tIdx' = tIdx + 1
    /\ UNCHANGED <<vSession, vPositions, tPc, tAction, tMode, tMagic, tFound,
                   tFill, tResult, tFrom>>
    /\ UNCHANGED <<tRow, tPass>>
    /\ UNCHANGED nonExecVars

\* close_positions returns all(...) through its finally block, and
\* execute_trade goes on: None when not closed, the TradeResult under
\* netting, the new leg otherwise
ClosePositionsReturn ==
    /\ tPc = "close_loop"
    /\ tIdx > Len(tFound)
    /\ IF ~AllDone(tResults) THEN ExecReturn("none", TRUE)
       ELSE IF tMode = "netting" THEN ExecReturn("netting", TRUE)
       ELSE /\ tPc' = "tick"
            /\ vSession' = SessionAfterClosePositions(vSession)
            /\ UNCHANGED <<tResult, tFrom>>
    /\ UNCHANGED <<vPositions, vOpen, tAction, tMode, tMagic, tFound, tIdx,
                   tResults, tFill, tOrders>>
    /\ UNCHANGED <<tRow, tPass>>
    /\ UNCHANGED nonExecVars

\* tick = mt5.symbol_info_tick(symbol)
ExecuteTradeTick ==
    /\ tPc = "tick"
    /\ \E tickOk \in BOOLEAN :
          IF tickOk /\ vSession = "open"
          THEN tPc' = "send" /\ tFill' = 1 /\ UNCHANGED <<tResult, tFrom, vSession>>
          ELSE ExecReturn("none", TRUE) /\ UNCHANGED tFill
    /\ UNCHANGED <<vPositions, vOpen, tAction, tMode, tMagic, tFound, tIdx,
                   tResults, tOrders>>
    /\ UNCHANGED <<tRow, tPass>>
    /\ UNCHANGED nonExecVars

\* one iteration of the loop over FILLING_MODES: order_send, return on
\* TRADE_RETCODE_DONE; with no session order_send returns None and the
\* exception handler goes on to the next mode
ExecuteTradeOrderSend ==
    /\ tPc = "send"
    /\ tFill <= Len(FILLING_MODES)
    /\ \E done \in BOOLEAN :
          IF vSession # "open"
          THEN tFill' = tFill + 1 /\ UNCHANGED <<tPc, tResult, tFrom, vSession, tOrders>>
          ELSE /\ tOrders' = Append(tOrders, [kind |-> "new",
                                              arg |-> FILLING_MODES[tFill],
                                              done |-> done])
               /\ IF done
                  THEN ExecReturn("order", TRUE) /\ UNCHANGED tFill
                  ELSE tFill' = tFill + 1 /\ UNCHANGED <<tPc, tResult, tFrom, vSession>>
    /\ UNCHANGED <<vPositions, vOpen, tAction, tMode, tMagic, tFound, tIdx,
                   tResults>>
    /\ UNCHANGED <<tRow, tPass>>
    /\ UNCHANGED nonExecVars

\* "All filling modes failed"
ExecuteTradeExhausted ==
    /\ tPc = "send"
    /\ tFill > Len(FILLING_MODES)
    /\ ExecReturn("none", TRUE)
    /\ UNCHANGED <<vPositions, vOpen, tAction, tMode, tMagic, tFound, tIdx,
                   tResults, tFill, tOrders>>
    /\ UNCHANGED <<tRow, tPass>>
    /\ UNCHANGED nonExecVars

\* process_signals after execute_trade: a result that is not None stamps the
\* row and writes df; None leaves the row as it was
ProcessSignalsStamp ==
    /\ tPc = "returned"
    /\ tPc' = "stamped"
    /\ tRow' = IF tResult # "none" THEN StampRow(tRow, tResult, tPass) ELSE tRow
    /\ UNCHANGED <<vSession, vPositions, vOpen, tAction, tMode, tMagic, tFound,
                   tIdx, tResults, tFill, tResult, tOrders, tPass, tFrom>>
    /\ UNCHANGED nonExecVars

\* run_executor_loop starts trade_executor.py again: process_signals calls
\* execute_trade for the row when it is still in pending_trades
ProcessSignalsNextPass ==
    /\ tPc = "stamped"
    /\ tPass < MaxRuns
    /\ IsPendingTrade(tRow)
    /\ tPass' = tPass + 1
    /\ tPc' = "begin"
    /\ tFound' = <<>>
    /\ tIdx' = 0
    /\ tResults' = <<>>
    /\ tFill' = 0
    /\ tResult' = ""
    /\ tOrders' = <<>>
    /\ UNCHANGED <<vSession, vPositions, vOpen, tAction, tMode, tMagic, tRow,
                   tFrom>>
    /\ UNCHANGED nonExecVars

ExecNext ==
    \/ ExecuteTradeBegin
    \/ ExecuteTradeInitialize
    \/ ExecuteTradeSelect
    \/ ExecuteTradeOpposite
    \/ ClosePositionsBegin
    \/ ClosePositionsOne
    \/ ClosePositionsReturn
    \/ ExecuteTradeTick
    \/ ExecuteTradeOrderSend
    \/ ExecuteTradeExhausted
    \/ ProcessSignalsStamp
    \/ ProcessSignalsNextPass

SpecExec == ExecInit /\ [][ExecNext]_vars

\* a new-leg market order was passed to the venue
NewLegSubmitted == \E i \in 1..Len(tOrders) : tOrders[i].kind = "new"

\* C6: under reversal mode close or netting, a new-leg market order is
\* submitted only when every opposite position that was found has been
\* closed.
C6_NoNewLegOverOpenOpposite ==
    (tMode \in {"close", "netting"} /\ NewLegSubmitted) =>
        \A i \in 1..Len(tFound) : tFound[i] \notin vOpen

\* C6 witness: execute_trade has returned with an opposite position left
\* open that close_positions skipped for want of a tick, although
\* close_positions reported success; no new leg was submitted.
C6_Witness ==
    /\ tPc = "returned"
    /\ tMode = "close"
    /\ \E i \in 1..Len(tFound) : tFound[i] \in vOpen
    /\ Len(tResults) < Len(tFound)
    /\ AllDone(tResults)
    /\ ~NewLegSubmitted

\* every opposite position that was found got a close order the venue accepted
AllFoundClosed ==
    /\ tFound # <<>>
    /\ Len(tResults) = Len(tFound)
    /\ AllDone(tResults)

\* the row is PendingExecution
RowIsPending == tRow.trade_done = "no" /\ tRow.executed = "no"

\* C14: in netting mode, when opposite positions exist and all of them are
\* closed, no new-position order is submitted and the signal is recorded as
\* Executed, so that no later pass picks it up.
C14_NettingCompletes ==
    (tPc = "stamped" /\ tMode = "netting" /\ AllFoundClosed) =>
        /\ ~NewLegSubmitted
        /\ tRow.trade_done = "yes"
        /\ ~RowIsPending
        /\ ~ENABLED ProcessSignalsNextPass

\* C14 witness: a netting call closed every opposite position and its row
\* was stamped.
C14_Witness ==
    /\ tPc = "stamped"
    /\ tMode = "netting"
    /\ AllFoundClosed
    /\ tRow.trade_done = "yes"

\* the new-position orders of the call, in the order they were sent
NewOrders == SelectSeq(tOrders, LAMBDA o : o.kind = "new")

NoneAccepted == \A i \in 1..Len(NewOrders) : ~NewOrders[i].done

\* C15: the new-position orders of one call are sent as FOK, then IOC, then
\* RETURN, none after an accepted one, at most three; when none is accepted
\* the row stays PendingExecution without ticket, price or execution time.
C15_FillFallback ==
    /\ Len(NewOrders) <= 3
    /\ \A i \in 1..Len(NewOrders) : NewOrders[i].arg = <<"FOK", "IOC", "RETURN">>[i]
    /\ \A i \in 1..(Len(NewOrders) - 1) : ~NewOrders[i].done
    /\ (tPc = "stamped" /\ NewOrders # <<>> /\ NoneAccepted) =>
          /\ Len(NewOrders) = 3
          /\ RowIsPending
          /\ tRow.ticket = 0
          /\ tRow.execution_price = 0
          /\ tRow.executed_at = -1

\* C15 witness: all three fill policies were declined and process_signals
\* has gone past the row.
C15_Witness ==
    /\ tPc = "stamped"
    /\ Len(NewOrders) = 3
    /\ NoneAccepted
    /\ RowIsPending

\* C17: after the venue reported the symbol unavailable or gave no tick, the
\* signal is no longer PendingExecution.
C17_TerminalRejection ==
    (tPc = "stamped" /\ tFrom \in {"select", "tick"}) => ~RowIsPending

\* C18: when execute_trade has returned, no session is open.
C18_SessionReleased ==
    tPc \in {"returned", "stamped"} => vSession = "closed"

\* C18 witness: execute_trade opened a session, had an order accepted and
\* returned.
C18_Witness ==
    /\ tPc = "returned"
    /\ tFrom = "send"
    /\ tResult = "order"
    /\ vSession = "closed"

\* C20 as stated: every Executed row carries ticket, price and execution
\* time, whatever the reversal mode.
C20_AsStated ==
    (tPc = "stamped" /\ tRow.trade_done = "yes") =>
        /\ tRow.ticket # 0
        /\ tRow.execution_price # 0
        /\ tRow.executed_at # -1

\* C20 amended: every Executed row carries its execution time; it carries
\* ticket and price exactly when a new-position order was accepted, and
\* neither after a netting completion (opposite positions found and
\* close_positions reported success).
C20_ExecutedStamped ==
    (tPc = "stamped" /\ tRow.trade_done = "yes") =>
        /\ tRow.executed_at # -1
        /\ NoneAccepted => (tMode = "netting" /\ tFound # <<>> /\ AllDone(tResults))
        /\ ~NoneAccepted <=> (tRow.ticket # 0 /\ tRow.execution_price # 0)
        /\ NoneAccepted <=> (tRow.ticket = 0 /\ tRow.execution_price = 0)

\* C20 witness: a netting completion was stamped Executed with an execution
\* time and without ticket and price.
C20_Witness ==
    /\ tPc = "stamped"
    /\ tMode = "netting"
    /\ tRow.trade_done = "yes"
    /\ tRow.executed_at # -1
    /\ tRow.ticket = 0

\* C28: in mode close, after every opposite position was closed, the call
\* goes on to the new leg with its session still open.
C28_SessionStaysOpen ==
    (tPc = "tick" /\ tMode = "close" /\ AllFoundClosed) => vSession = "open"

----------------------------------------------------------------------------
(* tpsl_manager.py: the loop over one strategy's position (specification   *)
(* SpecRisk).  Prices are whole numbers of points.                         *)

\* tpsl_manager defaults of load_config
CHECK_INTERVAL == 20
MAX_RETRIES == 3
RETRY_DELAY == 5
\* manage_position: positions younger than one minute are skipped
MIN_AGE_SECONDS == 60
\* manage_position: abs_tol = point * 5
NOOP_POINTS == 5

GetPipValueForexOnly(symbol) == 10

\* get_pip_value(symbol), in points
GetPipValue(symbol) ==
    IF IsMetal(symbol) THEN 1
    ELSE IF IsCrypto(symbol) THEN 1
    ELSE 10

\* the fixed_pips branch of manage_position: sl_price and tp_price, and
\* whether the trailing stop was activated, at current_price
FixedPipsTargets(pos, cfg, current_price) ==
    LET pip    == GetPipValue(pos.symbol)
        entry  == pos.price_open
        profit == IF pos.type = "BUY" THEN current_price - entry
                  ELSE entry - current_price
        active == cfg.trailing /\ profit >= cfg.activate_at * pip
    IN  IF pos.type = "BUY"
        THEN [sl |-> IF active
                     THEN Max(entry - cfg.sl_pips * pip, entry + cfg.lock_pips * pip)
                     ELSE entry - cfg.sl_pips * pip,
              tp |-> entry + cfg.tp_pips * pip,
              trailing |-> active]
        ELSE [sl |-> IF active
                     THEN Min(entry + cfg.sl_pips * pip, entry - cfg.lock_pips * pip)
                     ELSE entry + cfg.sl_pips * pip,
              tp |-> entry - cfg.tp_pips * pip,
              trailing |-> active]

\* math.isclose(a, b, abs_tol=point*5) on binary floating point: true below
\* 5 points, false above, and at exactly 5 points as the rounding of the two
\* prices falls (tie)
IsCloseNever(a, b, tie) == FALSE

IsClose(a, b, tie) ==
    \/ Abs(a - b) < NOOP_POINTS
    \/ Abs(a - b) = NOOP_POINTS /\ tie

\* manage_position: a position younger than one minute is skipped
IsYoungThirtySeconds(clock, pos) == clock - pos.time < 30

IsYoung(clock, pos) == clock - pos.time < MIN_AGE_SECONDS

\* the retry loop of manage_position: after a declined attempt, is there
\* another one (for attempt in range(max_retries))
RetryAlways(attempt) == TRUE

RetryAgain(attempt) == attempt + 1 < MAX_RETRIES

\* ticks the venue can answer with (bid for a long, ask for a short)
RiskPrices == {900, 1000, 1100, 1200}

RiskInit ==
    /\ rNow = 0
    /\ rPc = "loop"
    /\ \E type \in {"BUY", "SELL"} :
          \E sl \in IF type = "BUY" THEN {0, 795, 800, 803} ELSE {0, 1200, 1205},
             tp \in IF type = "BUY" THEN {0, 1400, 1405} ELSE {0, 600} :
              rPos = [ticket |-> 1, symbol |-> "EURUSD", type |-> type,
                      price_open |-> 1000, sl |-> sl, tp |-> tp, time |-> 0]
    /\ rCfg \in [mode : {"fixed_pips"}, sl_pips : {20}, tp_pips : {40},
                 trailing : BOOLEAN, activate_at : {10}, lock_pips : {5}]
    /\ rReq = <<>>
    /\ rAttempt = 0
    /\ rTrailed = FALSE
    /\ rLastSl = -1
    /\ rEval = <<>>
    /\ rReqAt = -1
    /\ rAccAt = -1
    /\ rAccBefore = -1
    /\ rInitial = [sl |-> rPos.sl, tp |-> rPos.tp]
    /\ rLast = [at |-> -1, outcome |-> "none", sent |-> 0]
    /\ PipeInit
    /\ SeqIdle
    /\ EnrichIdle
    /\ ExecIdle
    /\ PassIdle
    /\ MultiIdle
    /\ TargetIdle
    /\ SuperIdle

\* One iteration of main_loop up to the retry loop of manage_position:
\* process_strategy connects and reads the position, manage_position skips
\* a young position or one without a tick, computes the targets, and returns
\* when both are close to the current levels.  A pass that sends nothing
\* ends in time.sleep(check_interval).
RiskManage ==
    /\ rPc = "loop"
    /\ rNow + CHECK_INTERVAL <= MaxClock
    /\ \E connectOk \in BOOLEAN, tickOk \in BOOLEAN, price \in RiskPrices,
          tieSl \in BOOLEAN, tieTp \in BOOLEAN :
          LET target == FixedPipsTargets(rPos, rCfg, price)
              close  == /\ IsClose(target.sl, rPos.sl, tieSl)
                        /\ IsClose(target.tp, rPos.tp, tieTp)
          IN  IF ~connectOk \/ IsYoung(rNow, rPos) \/ ~tickOk
              THEN /\ rNow' = rNow + CHECK_INTERVAL
                   /\ rLast' = [at |-> rNow,
                                outcome |-> IF ~connectOk THEN "connect"
                                            ELSE IF IsYoung(rNow, rPos)
                                                 THEN "young" ELSE "tick",
                                sent |-> 0]
                   /\ UNCHANGED <<rPc, rReq, rTrailed, rLastSl, rEval>>
              ELSE /\ rTrailed' = (rTrailed \/ target.trailing)
                   /\ rLast' = [at |-> rNow,
                                outcome |-> IF close THEN "close" ELSE "sending",
                                sent |-> 0]
                   /\ rLastSl' = target.sl
                   /\ rEval' = [sl |-> target.sl, tp |-> target.tp,
                                curSl |-> rPos.sl, curTp |-> rPos.tp,
                                submitted |-> ~close]
                   /\ IF close
                      THEN /\ rNow' = rNow + CHECK_INTERVAL
                           /\ UNCHANGED <<rPc, rReq>>
                      ELSE /\ rPc' = "send"
                           /\ rReq' = [sl |-> target.sl, tp |-> target.tp]
                           /\ UNCHANGED rNow
    /\ rAttempt' = 0
    /\ UNCHANGED <<rPos, rCfg, rReqAt, rAccAt, rAccBefore, rInitial>>
    /\ UNCHANGED nonRiskVars

\* One attempt of the retry loop: order_send; accepted, the venue sets the
\* levels and manage_position returns True; declined, time.sleep(retry_delay)
\* and the next attempt, or False after max_retries; no reply object
\* (order_send returned None), result.retcode raises and the handler of
\* manage_position returns False.  The pass then ends in
\* time.sleep(check_interval).
RiskOrderSend ==
    /\ rPc = "send"
    /\ rNow + RETRY_DELAY + CHECK_INTERVAL <= MaxClock
    /\ rReqAt' = rNow
    /\ rAccBefore' = rAccAt
    /\ \E reply \in {"done", "declined", "none"} :
          IF reply = "done"
          THEN /\ rPos' = [rPos EXCEPT !.sl = rReq.sl, !.tp = rReq.tp]
               /\ rAccAt' = rNow
               /\ rPc' = "loop"
               /\ rNow' = rNow + CHECK_INTERVAL
               /\ rAttempt' = 0
               /\ rReq' = <<>>
               /\ rLast' = [rLast EXCEPT !.sent = @ + 1, !.outcome = "accepted"]
          ELSE /\ UNCHANGED <<rPos, rAccAt>>
               /\ IF reply = "declined" /\ RetryAgain(rAttempt)
                  THEN /\ rAttempt' = rAttempt + 1
                       /\ rNow' = rNow + RETRY_DELAY
                       /\ rLast' = [rLast EXCEPT !.sent = @ + 1]
                       /\ UNCHANGED <<rPc, rReq>>
                  ELSE /\ rAttempt' = 0
                       /\ rNow' = IF reply = "declined"
                                  THEN rNow + RETRY_DELAY + CHECK_INTERVAL
                                  ELSE rNow + CHECK_INTERVAL
                       /\ rPc' = "loop"
                       /\ rReq' = <<>>
                       /\ rLast' = [rLast EXCEPT
                                       !.sent = @ + 1,
                                       !.outcome = IF reply = "declined"
                                                   THEN "exhausted" ELSE "error"]
    /\ UNCHANGED <<rCfg, rTrailed, rLastSl, rEval, rInitial>>
    /\ UNCHANGED nonRiskVars

RiskNext == RiskManage \/ RiskOrderSend

SpecRisk == RiskInit /\ [][RiskNext]_vars

\* C7: after a modification was accepted at time T, no modification request
\* is sent for the position before T + 60 s.
C7_CooldownEnforced ==
    (rReqAt # -1 /\ rAccBefore # -1) => rReqAt >= rAccBefore + 60

\* C8: for a long position, once a pass has computed a trailing stop, the
\* stop-loss a later pass computes is never lower than the one computed
\* before it.
C8_TrailingMonotonic ==
    [][(rPos.type = "BUY" /\ rTrailed) => rLastSl' >= rLastSl]_vars

\* C9: when the target SL is within 5 points of the current SL and the target
\* TP within 5 points of the current TP, no modification is sent.
C9_NoOpSuppression ==
    (/\ rEval # <<>>
     /\ Abs(rEval.sl - rEval.curSl) <= 5
     /\ Abs(rEval.tp - rEval.curTp) <= 5) => ~rEval.submitted

\* the pip of the protection rules, in points: 1 point for symbols that
\* begin with XAU, XAG, BTC or ETH, 10 points otherwise
ClaimPip(symbol) ==
    IF SubSeq(symbol, 1, 3) \in {"XAU", "XAG", "BTC", "ETH"} THEN 1 ELSE 10

\* the fixed-pips targets of a position without trailing
PlainTargets(pos, cfg) ==
    IF pos.type = "BUY"
    THEN [sl |-> pos.price_open - cfg.sl_pips * ClaimPip(pos.symbol),
          tp |-> pos.price_open + cfg.tp_pips * ClaimPip(pos.symbol)]
    ELSE [sl |-> pos.price_open + cfg.sl_pips * ClaimPip(pos.symbol),
          tp |-> pos.price_open - cfg.tp_pips * ClaimPip(pos.symbol)]

\* the last pass got as far as comparing targets with the venue's levels
Evaluated == rLast.outcome \in {"close", "sending", "accepted", "exhausted", "error"}

\* C22: with fixed pips, no trailing and no levels set at the venue, every
\* request carries the fixed-pips targets, a pass that evaluates the position
\* before any acceptance submits them, and once one request was accepted the
\* venue holds the targets and no request is sent again.
C22_ExactlyOneModification ==
    (~rCfg.trailing /\ rInitial.sl = 0 /\ rInitial.tp = 0) =>
        /\ rReq # <<>> => rReq = PlainTargets(rPos, rCfg)
        /\ (Evaluated /\ rAccAt = -1) => rLast.outcome # "close"
        /\ rAccAt # -1 =>
              /\ rPos.sl = PlainTargets(rPos, rCfg).sl
              /\ rPos.tp = PlainTargets(rPos, rCfg).tp
              /\ rPc = "loop"
              /\ rReqAt = rAccAt
              /\ rAccBefore = -1
              /\ rLast.at > rAccAt => ~Evaluated \/ rLast.outcome = "close"

C22_Witness ==
    /\ ~rCfg.trailing /\ rInitial.sl = 0 /\ rInitial.tp = 0
    /\ rAccAt # -1
    /\ rLast.at > rAccAt
    /\ rLast.outcome = "close"

C24_BoundedRetries ==
    /\ rLast.sent <= MAX_RETRIES
    /\ rPc = "send" => (rLast.outcome = "sending" /\ rLast.sent < MAX_RETRIES)
    /\ rLast.outcome \in {"accepted", "exhausted", "error"} => rPc = "loop"
    /\ rLast.outcome = "exhausted" => rLast.sent = MAX_RETRIES

C24_Witness ==
    /\ rLast.outcome = "exhausted"
    /\ rLast.sent = MAX_RETRIES
    /\ rPc = "loop"

----------------------------------------------------------------------------
(* tpsl_manager.py: main_loop over several strategies (specification       *)
(* SpecMulti).  Each strategy has its own terminal and account; the        *)
(* MetaTrader5 module is connected to one terminal at a time.              *)

\* config["strategies"], in the order of the dictionary
MultiStrategies == <<"stratA", "stratB">>

MultiSymbols == {"EURUSD", "XAUUSD"}

\* the positions an account can hold: opened by the executor for the
\* account's strategy (tag = the strategy) or by hand (tag = "manual")
MultiPositions(account) == [symbol : MultiSymbols, tag : {account, "manual"}]

MultiInit ==
    /\ mPc = "strategy"
    /\ mPass = 1
    /\ mStrat = 1
    /\ mConn = "none"
    /\ mCache = {}
    /\ mAccounts \in {f \in [{"stratA", "stratB"} -> SUBSET [symbol : MultiSymbols,
                                                  tag : {"stratA", "stratB", "manual"}]] :
                       \A a \in {"stratA", "stratB"} :
                           /\ f[a] \subseteq MultiPositions(a)
                           /\ Cardinality(f[a]) <= MaxPositions}
    /\ mAllowed \in [{"stratA", "stratB"} -> (SUBSET MultiSymbols) \ {{}}]
    /\ mReads = {}
    /\ mMods = {}
    /\ PipeInit
    /\ SeqIdle
    /\ EnrichIdle
    /\ ExecIdle
    /\ RiskIdle
    /\ PassIdle
    /\ TargetIdle
    /\ SuperIdle

\* process_strategy(strategy): initialize_mt5 connects only when the strategy
\* is not in _terminal_connections; positions_get() answers for the account
\* the module is connected to; manage_position is called for every position
\* whose symbol is in allowed_symbols.  What a failed mt5.initialize leaves
\* of the previous connection is not specified: either nothing or all of it.
ProcessStrategy ==
    /\ mPc = "strategy"
    /\ LET s == MultiStrategies[mStrat]
       IN  \E initOk \in BOOLEAN, kept \in BOOLEAN :
              IF s \notin mCache /\ ~initOk
              THEN /\ mConn' = IF kept THEN mConn ELSE "none"
                   /\ UNCHANGED <<mCache, mReads, mMods>>
              ELSE LET conn == IF s \notin mCache THEN s ELSE mConn
                   IN  /\ mConn' = conn
                       /\ mCache' = mCache \cup {s}
                       /\ IF conn = "none"
                          THEN UNCHANGED <<mReads, mMods>>
                          ELSE /\ mReads' = mReads \cup {<<s, conn>>}
                               /\ mMods' = mMods \cup
                                     {<<s, conn, p.tag>> :
                                         p \in {q \in mAccounts[conn] :
                                                   q.symbol \in mAllowed[s]}}
    /\ IF mStrat < Len(MultiStrategies)
       THEN mStrat' = mStrat + 1 /\ UNCHANGED mPc
       ELSE mPc' = "sleep" /\ UNCHANGED mStrat
    /\ UNCHANGED <<mPass, mAccounts, mAllowed>>
    /\ UNCHANGED nonMultiVars

\* time.sleep(check_interval), then the next pass of the while loop
MultiSleep ==
    /\ mPc = "sleep"
    /\ mPass < MaxRuns
    /\ mPass' = mPass + 1
    /\ mStrat' = 1
    /\ mPc' = "strategy"
    /\ UNCHANGED <<mConn, mCache, mAccounts, mAllowed, mReads, mMods>>
    /\ UNCHANGED nonMultiVars

MultiNext == ProcessStrategy \/ MultiSleep

SpecMulti == MultiInit /\ [][MultiNext]_vars

\* C19: while strategy S is processed, the positions read are those of S's
\* own account, and every position S's policy is applied to is held on S's
\* account and tagged with S.
C19_StrategyIsolation ==
    /\ \A r \in mReads : r[2] = r[1]
    /\ \A m \in mMods : m[2] = m[1] /\ m[3] = m[1]

----------------------------------------------------------------------------
(* tpsl_manager.py: the targets manage_position computes for one position   *)
(* (specification SpecTargets).  Prices and distances are whole numbers of *)
(* points, the volume whole lots, trade_tick_value_profit money per point  *)
(* and lot.                                                                *)

\* the percentage_balance branch of manage_position: the distances are the
\* risked and the rewarded share of the balance divided by the money one
\* point of the position is worth; no targets without account information
\* or with a tick value of 0
PercentageTargets(pos, cfg, account) ==
    LET dollar_per_point == account.tick_value * pos.volume
        sl_distance == RoundHalfEven(account.balance * cfg.sl_percent,
                                     100 * dollar_per_point)
        tp_distance == RoundHalfEven(account.balance * cfg.tp_percent,
                                     100 * dollar_per_point)
    IN  IF ~account.ok \/ account.tick_value = 0
        THEN [ok |-> FALSE, sl |-> pos.sl, tp |-> pos.tp, trailing |-> FALSE]
        ELSE IF pos.type = "BUY"
        THEN [ok |-> TRUE, sl |-> pos.price_open - sl_distance,
              tp |-> pos.price_open + tp_distance, trailing |-> FALSE]
        ELSE [ok |-> TRUE, sl |-> pos.price_open + sl_distance,
              tp |-> pos.price_open - tp_distance, trailing |-> FALSE]

\* the tpsl_logic documents: fixed pips with or without trailing, and
\* percentage of balance with or without a breakeven setting (in percent of
\* the way to the take-profit, 0 for none)
TargetCfgs ==
    [mode : {"fixed_pips"}, sl_pips : {20}, tp_pips : {40}, trailing : BOOLEAN,
     activate_at : {10}, lock_pips : {5}, sl_percent : {0}, tp_percent : {0},
     breakeven_at : {0}]
    \cup
    [mode : {"percentage_balance"}, sl_pips : {0}, tp_pips : {0},
     trailing : {FALSE}, activate_at : {0}, lock_pips : {0}, sl_percent : {1},
     tp_percent : {2}, breakeven_at : {0, 50}]

TargetSymbols == {"EURUSD", "XAUUSD", "BTCUSD"}

TargetPrices == {900, 990, 1000, 1010, 1100}

TargetInit ==
    /\ gPc = "input"
    /\ gPos \in [ticket : {1}, symbol : TargetSymbols, type : {"BUY", "SELL"},
                  price_open : {1000}, volume : {1, 2}, sl : {0}, tp : {0}]
    /\ gCfg \in TargetCfgs
    /\ gPrice \in TargetPrices
    /\ gAccount \in [ok : BOOLEAN, balance : {1000, 10000}, tick_value : {0, 1}]
    /\ gOut = <<>>
    /\ PipeInit
    /\ SeqIdle
    /\ EnrichIdle
    /\ ExecIdle
    /\ RiskIdle
    /\ PassIdle
    /\ MultiIdle
    /\ SuperIdle

\* manage_position from the mode test to the rounding of the two prices
ManagePositionTargets ==
    /\ gPc = "input"
    /\ gPc' = "done"
    /\ gOut' = IF gCfg.mode = "fixed_pips"
               THEN LET t == FixedPipsTargets(gPos, gCfg, gPrice)
                    IN  [ok |-> TRUE, sl |-> t.sl, tp |-> t.tp,
                         trailing |-> t.trailing]
               ELSE PercentageTargets(gPos, gCfg, gAccount)
    /\ UNCHANGED <<gPos, gCfg, gPrice, gAccount>>
    /\ UNCHANGED nonTargetVars

TargetNext == ManagePositionTargets

SpecTargets == TargetInit /\ [][TargetNext]_vars

\* how far the price has gone from the entry towards the take-profit
TargetProgress ==
    IF gPos.type = "BUY" THEN gPrice - gPos.price_open
    ELSE gPos.price_open - gPrice

\* C21: under percentage-of-balance protection with a breakeven setting, once
\* the price has gone at least the breakevenAt fraction of the way to the
\* take-profit, the computed stop-loss is the entry price.
C21_BreakevenOverlay ==
    (/\ gPc = "done"
     /\ gCfg.mode = "percentage_balance"
     /\ gCfg.breakeven_at > 0
     /\ gOut.ok
     /\ TargetProgress * 100 >= gCfg.breakeven_at * Abs(gOut.tp - gPos.price_open))
        => gOut.sl = gPos.price_open

\* C27: the fixed-pips targets are entry -/+ slPips and tpPips pips for a
\* long and mirrored for a short, a pip being 1 point for XAU, XAG, BTC and
\* ETH symbols and 10 points otherwise; with trailing active the stop-loss
\* is the tighter of that one and entry +/- lockPips pips.
C27_FixedPipsTargets ==
    (gPc = "done" /\ gCfg.mode = "fixed_pips") =>
        LET plain == PlainTargets(gPos, gCfg)
            lock  == gCfg.lock_pips * ClaimPip(gPos.symbol)
        IN  /\ gOut.ok
            /\ gOut.tp = plain.tp
            /\ gOut.sl = IF ~gOut.trailing THEN plain.sl
                         ELSE IF gPos.type = "BUY"
                              THEN Max(plain.sl, gPos.price_open + lock)
                              ELSE Min(plain.sl, gPos.price_open - lock)

C27_Witness ==
    /\ gPc = "done"
    /\ gCfg.mode = "fixed_pips"
    /\ gPos.symbol = "XAUUSD"
    /\ gPos.type = "SELL"
    /\ gOut.trailing
    /\ gOut.sl = gPos.price_open - 5

----------------------------------------------------------------------------
(* autostart.py and the tpsl_manager.py process it runs (specification     *)
(* SpecSuper).  autostart keeps one loop thread per component; a thread    *)
(* runs its component as a child process.  trade_parser.py and             *)
(* trade_executor.py make one pass and exit; tpsl_manager.py runs          *)
(* main_loop.  One position with one retry loop stands for the work of a   *)
(* pass of main_loop.                                                      *)

\* run_parser_loop, run_executor_loop, run_tpsl_loop
Components == {"parser", "executor", "tpsl"}

LoopHandlerBreaks(exc) == "exited"

\* the except clauses of the while loop of main_loop: KeyboardInterrupt
\* leaves the loop, any other exception is logged and followed by
\* time.sleep(retry_delay)
LoopHandler(exc) == IF exc = "KeyboardInterrupt" THEN "exited" ELSE "handler"

SuperInit ==
    /\ sRunning = TRUE
    /\ sMain = "running"
    /\ sSignal = "none"
    /\ sThread = [c \in Components |-> "top"]
    /\ sChild = "off"
    /\ sChildPass = 0
    /\ sAttempt = 0
    /\ sFaultAt = 0
    /\ sFaultKind = "none"
    /\ sLate = {}
    /\ PipeInit
    /\ SeqIdle
    /\ EnrichIdle
    /\ ExecIdle
    /\ RiskIdle
    /\ PassIdle
    /\ MultiIdle
    /\ TargetIdle

\* "while running:" of a loop thread, then subprocess.run starts the
\* component.  tpsl_manager.py begins main_loop with load_config, which
\* raises when the document cannot be read: the process ends before the
\* loop.
ThreadTop(c) ==
    /\ sMain = "running"
    /\ sThread[c] = "top"
    /\ IF sRunning
       THEN /\ sThread' = [sThread EXCEPT ![c] = "run"]
            /\ sLate' = IF sSignal # "none" THEN sLate \cup {c} ELSE sLate
            /\ IF c = "tpsl"
               THEN /\ \E loaded \in BOOLEAN :
                         /\ sChild' = IF loaded THEN "pass" ELSE "exited"
                         /\ sChildPass' = IF loaded THEN 1 ELSE 0
                    /\ sAttempt' = 0
                    /\ sFaultAt' = 0
                    /\ sFaultKind' = "none"
               ELSE UNCHANGED <<sChild, sChildPass, sAttempt, sFaultAt, sFaultKind>>
       ELSE /\ sThread' = [sThread EXCEPT ![c] = "dead"]
            /\ UNCHANGED <<sChild, sChildPass, sAttempt, sFaultAt, sFaultKind,
                           sLate>>
    /\ UNCHANGED <<sRunning, sMain, sSignal>>
    /\ UNCHANGED nonSuperVars

\* subprocess.run returns when the child process has ended
ThreadRunEnd(c) ==
    /\ sMain = "running"
    /\ sThread[c] = "run"
    /\ c = "tpsl" => sChild = "exited"
    /\ sThread' = [sThread EXCEPT ![c] = "sleep"]
    /\ UNCHANGED <<sRunning, sMain, sSignal, sChild, sChildPass, sAttempt,
                   sFaultAt, sFaultKind, sLate>>
    /\ UNCHANGED nonSuperVars

\* time.sleep at the end of the thread's loop body
ThreadSleepEnd(c) ==
    /\ sMain = "running"
    /\ sThread[c] = "sleep"
    /\ sThread' = [sThread EXCEPT ![c] = "top"]
    /\ UNCHANGED <<sRunning, sMain, sSignal, sChild, sChildPass, sAttempt,
                   sFaultAt, sFaultKind, sLate>>
    /\ UNCHANGED nonSuperVars

\* SIGINT or SIGTERM: shutdown_handler clears running.  Sent to the
\* autostart process ("process") no child hears of it; Ctrl+C on the console
\* ("console") also raises KeyboardInterrupt in the children.
ShutdownSignal ==
    /\ sMain = "running"
    /\ sSignal = "none"
    /\ \E kind \in {"process", "console"} :
          /\ sSignal' = kind
          /\ sChild' = IF kind = "console" /\ sChild \in {"pass", "retry", "sleep"}
                       THEN LoopHandler("KeyboardInterrupt")
                       ELSE IF kind = "console" /\ sChild = "handler"
                            THEN "exited"
                            ELSE sChild
    /\ sRunning' = FALSE
    /\ UNCHANGED <<sMain, sThread, sChildPass, sAttempt, sFaultAt, sFaultKind,
                   sLate>>
    /\ UNCHANGED nonSuperVars

\* main: "while running: time.sleep(1)" ends, the finally block terminates
\* the listener and the interpreter exits: the daemon threads end with it,
\* the child processes they started do not.
MainExit ==
    /\ sMain = "running"
    /\ ~sRunning
    /\ sMain' = "exited"
    /\ sThread' = [c \in Components |-> "dead"]
    /\ UNCHANGED <<sRunning, sSignal, sChild, sChildPass, sAttempt, sFaultAt,
                   sFaultKind, sLate>>
    /\ UNCHANGED nonSuperVars

\* the body of one pass of main_loop: every strategy processed without a
\* fault ("done"); a fault process_strategy or manage_position catches
\* ("connect", "config", "manage") and the pass goes on; an exception in the
\* loop body itself ("loop"); or a declined modification, after which
\* manage_position sleeps retry_delay
ChildPass ==
    /\ sChild = "pass"
    /\ \E outcome \in {"done", "connect", "config", "manage", "loop", "declined"} :
          /\ sChild' = CASE outcome = "loop" -> LoopHandler("Exception")
                         [] outcome = "declined" -> "retry"
                         [] OTHER -> "sleep"
          /\ IF outcome \in {"connect", "config", "manage", "loop"}
             THEN sFaultAt' = sChildPass /\ sFaultKind' = outcome
             ELSE UNCHANGED <<sFaultAt, sFaultKind>>
    /\ sAttempt' = 0
    /\ UNCHANGED <<sRunning, sMain, sSignal, sThread, sChildPass, sLate>>
    /\ UNCHANGED nonSuperVars

\* time.sleep(retry_delay) of the retry loop ends: the next attempt is sent,
\* or manage_position returns False after max_retries
ChildRetry ==
    /\ sChild = "retry"
    /\ IF RetryAgain(sAttempt)
       THEN /\ sLate' = IF sSignal # "none" THEN sLate \cup {"retry"} ELSE sLate
            /\ \E done \in BOOLEAN :
                  IF done
                  THEN sChild' = "sleep" /\ sAttempt' = 0
                  ELSE sAttempt' = sAttempt + 1 /\ UNCHANGED sChild
       ELSE /\ sChild' = "sleep"
            /\ sAttempt' = 0
            /\ UNCHANGED sLate
    /\ UNCHANGED <<sRunning, sMain, sSignal, sThread, sChildPass, sFaultAt,
                   sFaultKind>>
    /\ UNCHANGED nonSuperVars

\* time.sleep(check_interval), or time.sleep(retry_delay) of the handler,
\* ends and "while True" starts the next pass
ChildSleepEnd ==
    /\ sChild \in {"sleep", "handler"}
    /\ sChildPass < MaxRuns
    /\ sChild' = "pass"
    /\ sChildPass' = sChildPass + 1
    /\ sLate' = IF sSignal # "none" THEN sLate \cup {"risk_pass"} ELSE sLate
    /\ UNCHANGED <<sRunning, sMain, sSignal, sThread, sAttempt, sFaultAt,
                   sFaultKind>>
    /\ UNCHANGED nonSuperVars

SuperNext ==
    \/ \E c \in Components : ThreadTop(c)
    \/ \E c \in Components : ThreadRunEnd(c)
    \/ \E c \in Components : ThreadSleepEnd(c)
    \/ ShutdownSignal
    \/ MainExit
    \/ ChildPass
    \/ ChildRetry
    \/ ChildSleepEnd

SpecSuper == SuperInit /\ [][SuperNext]_vars

\* C25: after the shutdown signal no component starts a new pass and a retry
\* loop in progress sends no further request.
C25_StopsAfterSignal ==
    sLate = {}

\* C26: once main_loop has started its loop, only a KeyboardInterrupt ends
\* it: after a fault in a pass the loop is still running, and from its sleep
\* it starts the next pass.
C26_LoopSurvivesFaults ==
    /\ (sChild = "exited" /\ sChildPass >= 1) => sSignal = "console"
    /\ (sFaultAt >= 1 /\ sSignal # "console") =>
          sChild \in {"pass", "retry", "sleep", "handler"}
    /\ (sChild \in {"sleep", "handler"} /\ sChildPass < MaxRuns) =>
          ENABLED ChildSleepEnd

C26_Witness ==
    /\ sFaultKind = "loop"
    /\ sFaultAt >= 1
    /\ sChildPass > sFaultAt
    /\ sChild = "pass"
    /\ sSignal # "console"

====
